---------------------------- MODULE Spec2Model ----------------------------
(***************************************************************************)
(* Model of src/netris_app.py: the server configurator (tier selection,    *)
(* RAID sizing, server name, price estimate).                              *)
(*                                                                         *)
(* Number representation.  The program computes with Python floats; the    *)
(* model computes with exact integers and fractions:                       *)
(*   - disk sizes and usable/raw capacities are whole terabytes (every     *)
(*     disk size offered by the slider is a whole number, and usable and   *)
(*     raw capacities are integer multiples of it);                        *)
(*   - a required effective capacity is an integer number of TENTHS of a   *)
(*     terabyte (ARCHIVE_TB_PER_CAMERA = 1.4 TB is 14 tenths);             *)
(*   - a fill factor is an integer number of HUNDREDTHS (0.77 is 77);      *)
(*   - required_usable_tb = required_effective_tb / fill_factor is the     *)
(*     fraction [num |-> 10 * tenths, den |-> hundredths] terabytes, and   *)
(*     the comparison  usable_tb >= required_usable_tb  is the exact       *)
(*     comparison  usable_tb * den >= num.                                 *)
(* Strings built by f-strings are modelled by the values substituted into  *)
(* the template (a record or a tuple); an empty string is the empty tuple. *)
(***************************************************************************)
EXTENDS Integers, Sequences, FiniteSets, TLC

VARIABLES pc, cams, disk_tb, fill_factor, archive_effective_tb, chosen,
          plan, server_name, prices, n_arg, level, code

vars == <<pc, cams, disk_tb, fill_factor, archive_effective_tb, chosen,
          plan, server_name, prices, n_arg, level, code>>

---------------------------------------------------------------------------
(* Bounds of the entry-point exploration (SpecCore).                       *)

\* largest base disk count handed to usable_and_level directly
MaxN == 245
\* largest required effective capacity, in whole terabytes
MaxRequiredTb == 240
\* camera counts handed to pick_tier directly: -MaxBelow..MaxCams
MaxBelow == 3
MaxCams == 505

\* disk unit sizes (TB) handed to the entry points; 1 and 5 are not in the
\* price table, 1 makes every base disk count 2..239 the minimal fit
CoreDisks == {1, 4, 5, 16}
\* fill factors (hundredths) handed to plan_storage
CoreFills == {50, 77, 100}
\* camera counts handed to build_server_name / calc_prices
CoreNameCams == {0, 32, 600}

---------------------------------------------------------------------------
(* Constants of the program.                                               *)

TIERS ==
  << [cam_range |-> <<1, 8>>,     cores_label |-> "2-4", ram_gb |-> 8,   cpu_model |-> "Intel Xeon E-2314"],
     [cam_range |-> <<9, 16>>,    cores_label |-> "4",   ram_gb |-> 8,   cpu_model |-> "Intel Xeon E-2314"],
     [cam_range |-> <<17, 32>>,   cores_label |-> "4",   ram_gb |-> 16,  cpu_model |-> "Intel Xeon E-2314"],
     [cam_range |-> <<33, 64>>,   cores_label |-> "6",   ram_gb |-> 32,  cpu_model |-> "Intel Xeon E-2336"],
     [cam_range |-> <<65, 100>>,  cores_label |-> "8",   ram_gb |-> 64,  cpu_model |-> "Intel Xeon E-2378"],
     [cam_range |-> <<101, 200>>, cores_label |-> "10",  ram_gb |-> 64,  cpu_model |-> "Intel Xeon Silver 4310"],
     [cam_range |-> <<201, 400>>, cores_label |-> "12",  ram_gb |-> 96,  cpu_model |-> "Intel Xeon Silver 4310"],
     [cam_range |-> <<401, 500>>, cores_label |-> "14",  ram_gb |-> 128, cpu_model |-> "Intel Xeon Silver 4314"] >>

\* 1.4 TB per camera, in tenths of a terabyte
ARCHIVE_TB_PER_CAMERA == 14
\* 0.77, in hundredths
FILL_FACTOR == 77

\* number_input(min_value=1, max_value=2000)
CamsMin == 1
CamsMax == 2000
\* select_slider options, TB
DiskOptions == {4, 6, 8, 10, 12, 14, 16, 18, 20, 22}

\* range(2, 240): first and one-past-last base disk count tried
SearchFrom == 2
SearchStop == 240

PLATFORM_PRICE_BRACKETS ==
  << <<1, 8, 81011>>, <<9, 12, 104381>>, <<13, 16, 141640>>, <<17, 24, 139535>> >>

CPU_MB_PRICE ==
  ("Intel Xeon E-2314" :> 82047) @@ ("Intel Xeon E-2336" :> 98533) @@
  ("Intel Xeon E-2378" :> 109420) @@ ("Intel Xeon Silver 4310" :> 140338)

RAM_PRICE_PER_8GB == 3206
OS_SSD_PRICE == 11312
OS_LICENSE_PRICE == 52800
RAID_AND_CABLES_PRICE == 25000
CAMERA_PRICE_PER_CAMERA == 5808

HDD_PRICE_PER_DISK ==
  (4 :> 1000) @@ (6 :> 2000) @@ (8 :> 3000) @@ (10 :> 4000) @@ (12 :> 5000) @@
  (14 :> 6000) @@ (16 :> 25000) @@ (18 :> 7000) @@ (20 :> 8000) @@ (22 :> 9000)

---------------------------------------------------------------------------
(* Arithmetic helpers.                                                     *)

\* math.ceil(a / b) for b > 0
Ceil(a, b) == (a + b - 1) \div b

\* max(a, b)
Max(a, b) == IF a >= b THEN a ELSE b

\* int(round(num / den)) for den > 0: Python rounds a tie to the even integer
Round(num, den) ==
  LET q == num \div den
      r == num % den
  IN  IF 2 * r < den THEN q
      ELSE IF 2 * r > den THEN q + 1
      ELSE IF q % 2 = 0 THEN q ELSE q + 1

\* dict.get(key, 0)
Get(d, key) == IF key \in DOMAIN d THEN d[key] ELSE 0

\* "Silver" in cpu_model
HasSilver(cpu_model) ==
  cpu_model \in {"Intel Xeon Silver 4310", "Intel Xeon Silver 4314"}

\* usable_tb >= required_usable_tb, the latter a fraction of terabytes
Meets(usable_tb, required) == usable_tb * required.den >= required.num


---------------------------------------------------------------------------
(* Name of the server.                                                     *)

cpu_family_code(cpu_model) == IF HasSilver(cpu_model) THEN "7" ELSE "5"

\* variant: the 13..16 class starts one disk late
chassis_code_late(total_disks) ==
  IF 1 <= total_disks /\ total_disks <= 13 THEN "2"
  ELSE IF 14 <= total_disks /\ total_disks <= 16 THEN "3"
  ELSE IF 17 <= total_disks /\ total_disks <= 24 THEN "4"
  ELSE ""

chassis_code(total_disks) ==
  IF 1 <= total_disks /\ total_disks <= 12 THEN "2"
  ELSE IF 13 <= total_disks /\ total_disks <= 16 THEN "3"
  ELSE IF 17 <= total_disks /\ total_disks <= 24 THEN "4"
  ELSE ""

\* The f-string 'Сервер LTV SR{ch}{cpu_code}0-{cams}N-{usable_int}-{raid_code}-IR.{ram}G.WI.CSI'
\* is the tuple of its substituted values; '' is the empty tuple.
\* usable_tb is a whole number of terabytes, so int(round(usable_tb)) is
\* Round(usable_tb, 1).
build_server_name(c, p, t) ==
  LET total_disks == p.total_disks
      ch == chassis_code(total_disks)
  IN  IF ch = "" THEN << >>
      ELSE << ch, cpu_family_code(t.cpu_model), c, Round(p.usable_tb, 1), "R6", t.ram_gb >>

---------------------------------------------------------------------------
(* Tier selection.                                                         *)

\* variant: the clamp below the first tier is missing
pick_tier_noclamp(num_cams) ==
  LET hit == {i \in 1..Len(TIERS) :
                TIERS[i].cam_range[1] <= num_cams /\ num_cams <= TIERS[i].cam_range[2]}
  IN  IF hit # {} THEN TIERS[CHOOSE i \in hit : \A j \in hit : i <= j]
      ELSE TIERS[Len(TIERS)]

pick_tier(num_cams) ==
  LET hit == {i \in 1..Len(TIERS) :
                TIERS[i].cam_range[1] <= num_cams /\ num_cams <= TIERS[i].cam_range[2]}
  IN  IF hit # {} THEN TIERS[CHOOSE i \in hit : \A j \in hit : i <= j]
      ELSE IF num_cams < 1 THEN TIERS[1]
      ELSE TIERS[Len(TIERS)]

---------------------------------------------------------------------------
(* RAID level and usable capacity of n base disks.                         *)
(* The level string is modelled by [raid, g1, g2]: the RAID name and the   *)
(* disk counts printed in it (g2 = 0 when the string prints one count).    *)

\* variant: a RAID6 group is charged three disks
usable_and_level_raid6_three(n, disk) ==
  IF n < 2 THEN [usable |-> 0, raid |-> "-", g1 |-> 0, g2 |-> 0]
  ELSE IF n = 2 THEN [usable |-> 1 * disk, raid |-> "RAID1", g1 |-> 2, g2 |-> 0]
  ELSE IF 3 <= n /\ n <= 6 THEN [usable |-> (n - 1) * disk, raid |-> "RAID5", g1 |-> n, g2 |-> 0]
  ELSE IF 7 <= n /\ n <= 16 THEN [usable |-> (n - 3) * disk, raid |-> "RAID6", g1 |-> n, g2 |-> 0]
  ELSE
    LET h1 == Ceil(n, 2)
        h2 == n - h1
        g2 == IF h2 < 4 THEN 4 ELSE h2
        g1 == IF h2 < 4 THEN n - 4 ELSE h1
        usable == Max(g1 - 2, 0) + Max(g2 - 2, 0)
    IN  [usable |-> usable * disk, raid |-> "RAID60", g1 |-> g1, g2 |-> g2]

\* variant: the first group is floor(n/2) instead of ceil(n/2)
usable_and_level_floor(n, disk) ==
  IF n < 2 THEN [usable |-> 0, raid |-> "-", g1 |-> 0, g2 |-> 0]
  ELSE IF n = 2 THEN [usable |-> 1 * disk, raid |-> "RAID1", g1 |-> 2, g2 |-> 0]
  ELSE IF 3 <= n /\ n <= 6 THEN [usable |-> (n - 1) * disk, raid |-> "RAID5", g1 |-> n, g2 |-> 0]
  ELSE IF 7 <= n /\ n <= 16 THEN [usable |-> (n - 2) * disk, raid |-> "RAID6", g1 |-> n, g2 |-> 0]
  ELSE
    LET h1 == n \div 2
        h2 == n - h1
        g2 == IF h2 < 4 THEN 4 ELSE h2
        g1 == IF h2 < 4 THEN n - 4 ELSE h1
        usable == Max(g1 - 2, 0) + Max(g2 - 2, 0)
    IN  [usable |-> usable * disk, raid |-> "RAID60", g1 |-> g1, g2 |-> g2]

\* variant: the two groups above 16 disks are charged one disk each
usable_and_level_raid50(n, disk) ==
  IF n < 2 THEN [usable |-> 0, raid |-> "-", g1 |-> 0, g2 |-> 0]
  ELSE IF n = 2 THEN [usable |-> 1 * disk, raid |-> "RAID1", g1 |-> 2, g2 |-> 0]
  ELSE IF 3 <= n /\ n <= 6 THEN [usable |-> (n - 1) * disk, raid |-> "RAID5", g1 |-> n, g2 |-> 0]
  ELSE IF 7 <= n /\ n <= 16 THEN [usable |-> (n - 2) * disk, raid |-> "RAID6", g1 |-> n, g2 |-> 0]
  ELSE
    LET h1 == Ceil(n, 2)
        h2 == n - h1
        g2 == IF h2 < 4 THEN 4 ELSE h2
        g1 == IF h2 < 4 THEN n - 4 ELSE h1
        usable == Max(g1 - 1, 0) + Max(g2 - 1, 0)
    IN  [usable |-> usable * disk, raid |-> "RAID60", g1 |-> g1, g2 |-> g2]

usable_and_level(n, disk) ==
  IF n < 2 THEN [usable |-> 0, raid |-> "-", g1 |-> 0, g2 |-> 0]
  ELSE IF n = 2 THEN [usable |-> 1 * disk, raid |-> "RAID1", g1 |-> 2, g2 |-> 0]
  ELSE IF 3 <= n /\ n <= 6 THEN [usable |-> (n - 1) * disk, raid |-> "RAID5", g1 |-> n, g2 |-> 0]
  ELSE IF 7 <= n /\ n <= 16 THEN [usable |-> (n - 2) * disk, raid |-> "RAID6", g1 |-> n, g2 |-> 0]
  ELSE
    LET h1 == Ceil(n, 2)
        h2 == n - h1
        \* if g2 < 4: g2 = 4; g1 = n - g2
        g2 == IF h2 < 4 THEN 4 ELSE h2
        g1 == IF h2 < 4 THEN n - 4 ELSE h1
        usable == Max(g1 - 2, 0) + Max(g2 - 2, 0)
    IN  [usable |-> usable * disk, raid |-> "RAID60", g1 |-> g1, g2 |-> g2]

---------------------------------------------------------------------------
(* Storage plan.                                                           *)

\* required_effective_tb / fill_factor: tenths divided by hundredths, in TB
required_usable(required_effective, fill) ==
  [num |-> 10 * required_effective, den |-> fill]

\* the plan returned when no base disk count fits
SentinelPlan(required) ==
  [base_disks |-> 0, spares |-> 0, total_disks |-> 0,
   raid |-> [raid |-> "none", g1 |-> 0, g2 |-> 0],
   usable_tb |-> 0, required_usable_tb |-> required, raw_tb |-> 0]

\* variant: hot spares from the first disk on (the earlier full-table rule)
BestPlan_spares_always(n, lv, required, disk) ==
  LET spares == Ceil(n, 18)
      total == n + spares
  IN  [base_disks |-> n, spares |-> spares, total_disks |-> total,
       raid |-> [raid |-> lv.raid, g1 |-> lv.g1, g2 |-> lv.g2],
       usable_tb |-> lv.usable, required_usable_tb |-> required,
       raw_tb |-> total * disk]

\* the dict built at the first fit
BestPlan(n, lv, required, disk) ==
  LET spares == IF n > 16 THEN Ceil(n, 18) ELSE 0
      total == n + spares
  IN  [base_disks |-> n, spares |-> spares, total_disks |-> total,
       raid |-> [raid |-> lv.raid, g1 |-> lv.g1, g2 |-> lv.g2],
       usable_tb |-> lv.usable, required_usable_tb |-> required,
       raw_tb |-> total * disk]

\* for n in range(from, 240): ... break -- the loop stops at the first n
\* (in increasing order) whose usable capacity meets the target; 'best' is
\* None when the range is exhausted
search(from, target, required, disk) ==
  LET fit == {n \in from..(SearchStop - 1) :
                Meets(usable_and_level(n, disk).usable, target)}
  IN  IF fit = {} THEN SentinelPlan(required)
      ELSE LET n == CHOOSE i \in fit : \A j \in fit : i <= j
           IN  BestPlan(n, usable_and_level(n, disk), required, disk)

\* variant: the loop compares with the effective capacity, not derated
plan_storage_nofill(required_effective, disk, fill) ==
  search(SearchFrom, [num |-> required_effective, den |-> 10],
         required_usable(required_effective, fill), disk)

\* variant: the search starts one disk late
plan_storage_from3(required_effective, disk, fill) ==
  search(SearchFrom + 1, required_usable(required_effective, fill),
         required_usable(required_effective, fill), disk)

plan_storage(required_effective, disk, fill) ==
  search(SearchFrom, required_usable(required_effective, fill),
         required_usable(required_effective, fill), disk)

---------------------------------------------------------------------------
(* Prices.                                                                 *)

platform_price_by_disks(total_disks) ==
  LET hit == {i \in 1..Len(PLATFORM_PRICE_BRACKETS) :
                PLATFORM_PRICE_BRACKETS[i][1] <= total_disks
                /\ total_disks <= PLATFORM_PRICE_BRACKETS[i][2]}
  IN  IF hit # {} THEN PLATFORM_PRICE_BRACKETS[CHOOSE i \in hit : \A j \in hit : i <= j][3]
      ELSE 0

cpu_mb_price(cpu_model) == Get(CPU_MB_PRICE, cpu_model)

ram_price_total(ram_gb) == Ceil(ram_gb, 8) * RAM_PRICE_PER_8GB

hdd_archive_price_total(disk, total_disks) ==
  Get(HDD_PRICE_PER_DISK, disk) * total_disks

\* the dict 'parts'
Parts(p, t, disk, c) ==
  [platform    |-> platform_price_by_disks(p.total_disks),
   cpu_mb      |-> cpu_mb_price(t.cpu_model),
   ram         |-> ram_price_total(t.ram_gb),
   os_ssd      |-> OS_SSD_PRICE,
   hdd_archive |-> hdd_archive_price_total(disk, p.total_disks),
   os_license  |-> OS_LICENSE_PRICE,
   raid_bundle |-> RAID_AND_CABLES_PRICE,
   cameras     |-> c * CAMERA_PRICE_PER_CAMERA]

\* sum(v for k, v in parts.items() if k != "cameras")
CoreSum(parts) ==
  parts.platform + parts.cpu_mb + parts.ram + parts.os_ssd
  + parts.hdd_archive + parts.os_license + parts.raid_bundle

\* variant: the cameras are added after the markup
calc_prices_cams_after(p, t, disk, c) ==
  LET parts == Parts(p, t, disk, c)
      core_sum == CoreSum(parts)
      cams_cost == parts.cameras
      total_sum == core_sum + cams_cost
  IN  [in_price |-> total_sum,
       mpc |-> Round(core_sum * 27, 20) + cams_cost,
       rpc |-> Round(core_sum * 31, 20) + cams_cost,
       breakdown |-> parts]

\* the markups 1.35 and 1.55 are the fractions 27/20 and 31/20
calc_prices(p, t, disk, c) ==
  LET parts == Parts(p, t, disk, c)
      core_sum == CoreSum(parts)
      cams_cost == parts.cameras
      total_sum == core_sum + cams_cost
  IN  [in_price |-> total_sum,
       mpc |-> Round(total_sum * 27, 20),
       rpc |-> Round(total_sum * 31, 20),
       breakdown |-> parts]

---------------------------------------------------------------------------
(* State.                                                                  *)
(*   pc                    position of the script / of the exploration     *)
(*   cams, disk_tb         the two widget values (arguments of the calls)  *)
(*   fill_factor           fill factor passed to plan_storage, hundredths  *)
(*   archive_effective_tb  required effective capacity, tenths of a TB     *)
(*   chosen, plan, server_name, prices   results of the calls              *)
(*   n_arg, level, code    argument and results of direct calls of         *)
(*                         usable_and_level and chassis_code               *)

NoTier == [cam_range |-> <<0, 0>>, cores_label |-> "", ram_gb |-> 0, cpu_model |-> ""]
NoLevel == [usable |-> 0, raid |-> "", g1 |-> 0, g2 |-> 0]
NoPlan ==
  [base_disks |-> 0, spares |-> 0, total_disks |-> 0,
   raid |-> [raid |-> "", g1 |-> 0, g2 |-> 0],
   usable_tb |-> 0, required_usable_tb |-> [num |-> 0, den |-> 1], raw_tb |-> 0]
NoPrices ==
  [in_price |-> 0, mpc |-> 0, rpc |-> 0,
   breakdown |-> [platform |-> 0, cpu_mb |-> 0, ram |-> 0, os_ssd |-> 0,
                  hdd_archive |-> 0, os_license |-> 0, raid_bundle |-> 0, cameras |-> 0]]

Cleared ==
  /\ cams = 0 /\ disk_tb = 0 /\ fill_factor = 0 /\ archive_effective_tb = 0
  /\ chosen = NoTier /\ plan = NoPlan /\ server_name = << >> /\ prices = NoPrices
  /\ n_arg = 0 /\ level = NoLevel /\ code = ""

---------------------------------------------------------------------------
(* The script: one run per widget change.                                  *)

Init == pc = "start" /\ Cleared

\* with st.sidebar: the two widgets return the values the user set
Input ==
  /\ pc = "start"
  /\ \E c \in CamsMin..CamsMax, d \in DiskOptions :
       /\ cams' = c
       /\ disk_tb' = d
  /\ pc' = "calc"
  /\ UNCHANGED <<fill_factor, archive_effective_tb, chosen, plan, server_name,
                 prices, n_arg, level, code>>

\* archive_effective_tb = ...; chosen = pick_tier(cams); plan = plan_storage(...)
Calc ==
  /\ pc = "calc"
  /\ archive_effective_tb' = cams * ARCHIVE_TB_PER_CAMERA
  /\ chosen' = pick_tier(cams)
  /\ fill_factor' = FILL_FACTOR
  /\ plan' = plan_storage(cams * ARCHIVE_TB_PER_CAMERA, disk_tb, FILL_FACTOR)
  /\ pc' = "name"
  /\ UNCHANGED <<cams, disk_tb, server_name, prices, n_arg, level, code>>

\* server_name = build_server_name(cams, plan, chosen)
BuildName ==
  /\ pc = "name"
  /\ server_name' = build_server_name(cams, plan, chosen)
  /\ pc' = "prices"
  /\ UNCHANGED <<cams, disk_tb, fill_factor, archive_effective_tb, chosen, plan,
                 prices, n_arg, level, code>>

\* prices = calc_prices(plan, chosen, disk_tb, cams)
Prices ==
  /\ pc = "prices"
  /\ prices' = calc_prices(plan, chosen, disk_tb, cams)
  /\ pc' = "done"
  /\ UNCHANGED <<cams, disk_tb, fill_factor, archive_effective_tb, chosen, plan,
                 server_name, n_arg, level, code>>

\* a widget change reruns the script from the top
Rerun ==
  /\ pc = "done"
  /\ pc' = "start"
  /\ cams' = 0 /\ disk_tb' = 0 /\ fill_factor' = 0 /\ archive_effective_tb' = 0
  /\ chosen' = NoTier /\ plan' = NoPlan /\ server_name' = << >>
  /\ prices' = NoPrices
  /\ UNCHANGED <<n_arg, level, code>>

Next == Input \/ Calc \/ BuildName \/ Prices \/ Rerun

Spec == Init /\ [][Next]_vars

---------------------------------------------------------------------------
(* The entry points called directly, with arguments from bounded sets.     *)

InitCore == pc = "core" /\ Cleared

CallPickTier ==
  /\ pc = "core"
  /\ \E c \in (0 - MaxBelow)..MaxCams :
       /\ cams' = c
       /\ chosen' = pick_tier(c)
  /\ pc' = "tier_done"
  /\ UNCHANGED <<disk_tb, fill_factor, archive_effective_tb, plan, server_name,
                 prices, n_arg, level, code>>

CallUsableAndLevel ==
  /\ pc = "core"
  /\ \E n \in 0..MaxN, d \in CoreDisks :
       /\ n_arg' = n
       /\ disk_tb' = d
       /\ level' = usable_and_level(n, d)
  /\ pc' = "level_done"
  /\ UNCHANGED <<cams, fill_factor, archive_effective_tb, chosen, plan,
                 server_name, prices, code>>

CallChassisCode ==
  /\ pc = "core"
  /\ \E td \in 0..MaxN :
       /\ n_arg' = td
       /\ code' = chassis_code(td)
  /\ pc' = "chassis_done"
  /\ UNCHANGED <<cams, disk_tb, fill_factor, archive_effective_tb, chosen, plan,
                 server_name, prices, level>>

CallPlanStorage ==
  /\ pc = "core"
  /\ \E tb \in 1..MaxRequiredTb, d \in CoreDisks, f \in CoreFills :
       /\ archive_effective_tb' = 10 * tb
       /\ disk_tb' = d
       /\ fill_factor' = f
       /\ plan' = plan_storage(10 * tb, d, f)
  /\ pc' = "planned"
  /\ UNCHANGED <<cams, chosen, server_name, prices, n_arg, level, code>>

CallBuildServerName ==
  /\ pc = "planned"
  /\ \E c \in CoreNameCams, i \in 1..Len(TIERS) :
       /\ cams' = c
       /\ chosen' = TIERS[i]
       /\ server_name' = build_server_name(c, plan, TIERS[i])
  /\ pc' = "named"
  /\ UNCHANGED <<disk_tb, fill_factor, archive_effective_tb, plan, prices,
                 n_arg, level, code>>

CallCalcPrices ==
  /\ pc = "planned"
  /\ \E c \in CoreNameCams, i \in 1..Len(TIERS) :
       /\ cams' = c
       /\ chosen' = TIERS[i]
       /\ prices' = calc_prices(plan, TIERS[i], disk_tb, c)
  /\ pc' = "priced"
  /\ UNCHANGED <<disk_tb, fill_factor, archive_effective_tb, plan, server_name,
                 n_arg, level, code>>

NextCore ==
  \/ CallPickTier \/ CallUsableAndLevel \/ CallChassisCode
  \/ CallPlanStorage \/ CallBuildServerName \/ CallCalcPrices

SpecCore == InitCore /\ [][NextCore]_vars

---------------------------------------------------------------------------
(* Properties.                                                             *)

\* states of the script in which 'plan' holds the result of plan_storage
AppPlanned == pc \in {"name", "prices", "done"}

\* usable capacity of m base disks meets the state's required usable
\* capacity: usable >= (archive_effective_tb / 10) / (fill_factor / 100)
Fits(m) ==
  usable_and_level(m, disk_tb).usable * fill_factor >= 10 * archive_effective_tb

\* C1: whenever plan_storage returns a non-sentinel plan (base_disks >= 2),
\* the plan's usable_tb is at least required_effective_tb / fill_factor,
\* which is also the value of its required_usable_tb field.
C1_UsableMeetsRequired ==
  (pc = "planned" /\ plan.base_disks >= 2) =>
     /\ plan.usable_tb * fill_factor >= 10 * archive_effective_tb
     /\ plan.required_usable_tb.num * fill_factor
          = 10 * archive_effective_tb * plan.required_usable_tb.den
     /\ plan.usable_tb * plan.required_usable_tb.den >= plan.required_usable_tb.num

\* a plan of two RAID6 groups sized under fill factor 0.5
C1_Witness ==
  /\ pc = "planned" /\ fill_factor = 50 /\ plan.base_disks >= 17
  /\ plan.usable_tb * fill_factor < 10 * archive_effective_tb + disk_tb * fill_factor

\* C2 as stated: for every n >= 2 the usable capacity of n+1 base disks is
\* at least the usable capacity of n base disks.
C2_MonotoneAll ==
  (pc = "level_done" /\ n_arg >= 2) =>
     usable_and_level(n_arg + 1, disk_tb).usable >= level.usable

\* C2 amended: the usable capacity is non-decreasing from n to n+1 for every
\* n >= 2 except n = 16; from 16 to 17 disks it drops by one disk unit
\* (14 units as one RAID6 group, 13 units as two RAID6 groups).
C2_MonotoneExcept16 ==
  /\ (pc = "level_done" /\ n_arg >= 2 /\ n_arg # 16) =>
        usable_and_level(n_arg + 1, disk_tb).usable >= level.usable
  /\ (pc = "level_done" /\ n_arg = 16) =>
        /\ level.usable = 14 * disk_tb
        /\ usable_and_level(n_arg + 1, disk_tb).usable = 13 * disk_tb

\* the last single-group count, followed by the first two-group count
C2_Witness ==
  /\ pc = "level_done" /\ n_arg = 16 /\ level.raid = "RAID6"
  /\ usable_and_level(n_arg + 1, disk_tb).raid = "RAID60"

\* C3 as stated: 32 cameras and 16 TB disks give base_disks = 9 in one RAID6
\* group of 9 disks, spares = 0, total_disks = 9.
C3_Scenario9 ==
  (AppPlanned /\ cams = 32 /\ disk_tb = 16) =>
     /\ plan.base_disks = 9
     /\ plan.raid = [raid |-> "RAID6", g1 |-> 9, g2 |-> 0]
     /\ plan.spares = 0
     /\ plan.total_disks = 9

\* C3 amended: 32 cameras (44.8 TB effective, fill factor 0.77) and 16 TB
\* disks give base_disks = 5 in one RAID5 group of 5 disks with usable
\* capacity 64 TB, spares = 0, total_disks = 5.
C3_Scenario5 ==
  (AppPlanned /\ cams = 32 /\ disk_tb = 16) =>
     /\ archive_effective_tb = 448 /\ fill_factor = 77
     /\ plan.base_disks = 5
     /\ plan.raid = [raid |-> "RAID5", g1 |-> 5, g2 |-> 0]
     /\ plan.usable_tb = 64
     /\ plan.spares = 0
     /\ plan.total_disks = 5

C3_Witness == pc = "name" /\ cams = 32 /\ disk_tb = 16 /\ plan.base_disks > 0

\* C4: plan_storage returns the plan of the smallest n in 2..239 whose usable
\* capacity meets the required usable capacity, and the sentinel plan (zero
\* disks and capacities, failure descriptor) exactly when no n in 2..239 does.
C4_FirstFitMinimal ==
  pc = "planned" =>
     IF \E m \in 2..239 : Fits(m)
     THEN /\ plan.base_disks \in 2..239
          /\ Fits(plan.base_disks)
          /\ \A m \in 2..(plan.base_disks - 1) : ~Fits(m)
          /\ plan.usable_tb = usable_and_level(plan.base_disks, disk_tb).usable
          /\ plan.raid.raid # "none"
     ELSE /\ plan.base_disks = 0 /\ plan.spares = 0 /\ plan.total_disks = 0
          /\ plan.usable_tb = 0 /\ plan.raw_tb = 0
          /\ plan.raid.raid = "none"

\* the requirement is met only by the last count of the range
C4_Witness == pc = "planned" /\ plan.base_disks = 239 /\ ~Fits(238)

\* C5: every plan has total_disks = base_disks + spares, spares = 0 up to 16
\* base disks and ceil(base_disks / 18) above, raw_tb = total_disks x disk size.
C5_PlanArithmetic ==
  pc = "planned" =>
     /\ plan.total_disks = plan.base_disks + plan.spares
     /\ plan.base_disks <= 16 => plan.spares = 0
     /\ plan.base_disks > 16 =>
          /\ 18 * plan.spares >= plan.base_disks
          /\ 18 * (plan.spares - 1) < plan.base_disks
     /\ plan.raw_tb = plan.total_disks * disk_tb

\* a plan with three hot spares
C5_Witness ==
  pc = "planned" /\ plan.base_disks = 37 /\ plan.spares = 3 /\ plan.total_disks = 40

\* C6: pick_tier returns the first tier below 1 camera, the last tier above
\* 500, and otherwise the one tier whose inclusive range holds the count.
C6_PickTier ==
  pc = "tier_done" =>
     LET holds == {i \in 1..Len(TIERS) :
                     TIERS[i].cam_range[1] <= cams /\ cams <= TIERS[i].cam_range[2]}
     IN  /\ cams < 1 => chosen = TIERS[1]
         /\ cams > 500 => chosen = TIERS[Len(TIERS)]
         /\ (1 <= cams /\ cams <= 500) =>
              /\ Cardinality(holds) = 1
              /\ \A i \in holds : chosen = TIERS[i]

C6_Witness == pc = "tier_done" /\ cams < 1 /\ chosen = TIERS[1]

\* the chassis code the claim gives for a total disk count
ClaimedChassis(td) ==
  IF 1 <= td /\ td <= 12 THEN "2"
  ELSE IF td <= 16 THEN "3"
  ELSE "4"

\* C7 as stated: for every plan of plan_storage a name is produced if and
\* only if total_disks does not exceed 24.
C7_NameIffAtMost24 ==
  pc = "named" => (Len(server_name) > 0 <=> plan.total_disks <= 24)

\* C7 amended: the chassis code is '2' for 1..12, '3' for 13..16, '4' for
\* 17..24 total disks; for every plan of plan_storage a name is produced if
\* and only if 1 <= total_disks <= 24: no name above 24 disks and no name for
\* the sentinel plan (total_disks = 0).
C7_NameIff1To24 ==
  /\ pc = "chassis_done" =>
        IF 1 <= n_arg /\ n_arg <= 24 THEN code = ClaimedChassis(n_arg) ELSE code = ""
  /\ pc = "named" =>
        /\ Len(server_name) > 0 <=> (1 <= plan.total_disks /\ plan.total_disks <= 24)
        /\ Len(server_name) > 0 => server_name[1] = ClaimedChassis(plan.total_disks)
        /\ plan.total_disks > 24 => server_name = << >>
        /\ plan.base_disks = 0 => server_name = << >>

C7_Witness == pc = "named" /\ plan.total_disks = 25 /\ server_name = << >>

\* C8: calc_prices returns in_price = the sum of the eight line items, the
\* camera licences included; an unmatched platform bracket, CPU model or disk
\* size contributes 0; mpc and rpc are in_price x 1.35 and in_price x 1.55
\* rounded to an integer.
C8_Prices ==
  pc = "priced" =>
     LET b == prices.breakdown
     IN  /\ prices.in_price = b.platform + b.cpu_mb + b.ram + b.os_ssd + b.hdd_archive
                              + b.os_license + b.raid_bundle + b.cameras
         /\ b.cameras = cams * 5808
         /\ b.os_ssd = 11312 /\ b.os_license = 52800 /\ b.raid_bundle = 25000
         /\ ~(1 <= plan.total_disks /\ plan.total_disks <= 24) => b.platform = 0
         /\ chosen.cpu_model \notin DOMAIN CPU_MB_PRICE => b.cpu_mb = 0
         /\ disk_tb \notin DOMAIN HDD_PRICE_PER_DISK => b.hdd_archive = 0
         /\ 20 * prices.mpc - 27 * prices.in_price \in -10..10
         /\ 20 * prices.rpc - 31 * prices.in_price \in -10..10

\* the sentinel plan, a CPU model and a disk size without a price, cameras
C8_Witness ==
  /\ pc = "priced" /\ plan.total_disks = 0 /\ disk_tb = 1 /\ cams = 600
  /\ chosen.cpu_model = "Intel Xeon Silver 4314"
  /\ prices.in_price = prices.breakdown.ram + 11312 + 52800 + 25000 + 600 * 5808

\* C9: for n in 17..239 the groups are g1 = ceil(n/2) and g2 = n - g1, they
\* differ by at most one, both hold at least 4 disks, and the usable capacity
\* is (n - 4) x disk size.
C9_BalancedGroups ==
  (pc = "level_done" /\ 17 <= n_arg /\ n_arg <= 239) =>
     /\ level.raid = "RAID60"
     /\ level.g1 = (n_arg + 1) \div 2
     /\ level.g2 = n_arg - level.g1
     /\ level.g1 + level.g2 = n_arg
     /\ level.g1 - level.g2 \in {0, 1}
     /\ level.g1 >= 4 /\ level.g2 >= 4
     /\ level.usable = (n_arg - 4) * disk_tb

C9_Witness == pc = "level_done" /\ n_arg = 17 /\ level.g1 = 9 /\ level.g2 = 8

\* C10: plan_storage never returns base_disks = 17 or 18, and no plan has
\* exactly one hot spare: spares is 0 or at least 2.
C10_No17No18 ==
  pc = "planned" =>
     /\ plan.base_disks \notin {17, 18}
     /\ plan.spares = 0 \/ plan.spares >= 2

\* the search passed 16, 17 and 18 disks and stopped at 19
C10_Witness ==
  /\ pc = "planned" /\ plan.base_disks = 19 /\ plan.spares = 2
  /\ ~Fits(16) /\ ~Fits(17) /\ ~Fits(18)

=============================================================================
